---- MODULE Spec2Model ----
(***************************************************************************)
(* Model of app.py, the Streamlit earnings-call summarizer.                *)
(*                                                                         *)
(* A Python str is a finite sequence of lexemes.  The lexemes "{" and "}"  *)
(* are the brace characters; every other lexeme is a run of characters     *)
(* that contains no brace.  Python None is kept apart from the empty str.  *)
(***************************************************************************)
EXTENDS Integers, Sequences, FiniteSets, TLC

VARIABLES model, uploaded_file, pc, trace,
          full_text, analyzer_response_text, analyzer_json_text,
          synthesizer_response, final_json_text, final_report_markdown,
          cg_pc, retry_count, attempt, full_prompt, cg_result,
          response_text, clean_text

vars == <<model, uploaded_file, pc, trace,
          full_text, analyzer_response_text, analyzer_json_text,
          synthesizer_response, final_json_text, final_report_markdown,
          cg_pc, retry_count, attempt, full_prompt, cg_result,
          response_text, clean_text>>

mainVars == <<uploaded_file, full_text, analyzer_response_text, analyzer_json_text,
              synthesizer_response, final_json_text, final_report_markdown>>

cgVars == <<cg_pc, retry_count, attempt, full_prompt, cg_result>>

cleanVars == <<response_text, clean_text>>

----------------------------------------------------------------------------
(* Bounds *)

MaxLen == 4

MaxRetryCount == 3

----------------------------------------------------------------------------
(* Python values *)

None == [isNone |-> TRUE, text |-> << >>]

Str(s) == [isNone |-> FALSE, text |-> s]

\* Python truthiness of an Optional[str]: None and "" are falsy.
Truthy(v) == ~v.isNone /\ v.text # << >>

Min(a, b) == IF a < b THEN a ELSE b

Max(a, b) == IF a > b THEN a ELSE b

\* str.find(c): 0-based index of the first occurrence, -1 when absent.
find(s, c) ==
    IF \E i \in 1..Len(s) : s[i] = c
    THEN (CHOOSE i \in 1..Len(s) : s[i] = c /\ \A j \in 1..(i-1) : s[j] # c) - 1
    ELSE -1

\* str.rfind(c): 0-based index of the last occurrence, -1 when absent.
rfind(s, c) ==
    IF \E i \in 1..Len(s) : s[i] = c
    THEN (CHOOSE i \in 1..Len(s) : s[i] = c /\ \A j \in (i+1)..Len(s) : s[j] # c) - 1
    ELSE -1

\* Python index normalisation for slicing.
SliceIndex(s, i) == IF i < 0 THEN Max(0, Len(s) + i) ELSE Min(i, Len(s))

\* s[a:b]
Slice(s, a, b) == SubSeq(s, SliceIndex(s, a) + 1, SliceIndex(s, b))

RECURSIVE SeqsUpTo(_, _)
SeqsUpTo(S, n) ==
    IF n = 0 THEN {<< >>}
    ELSE LET shorter == SeqsUpTo(S, n - 1)
         IN  shorter \cup {Append(s, x) : s \in shorter, x \in S}

----------------------------------------------------------------------------
(* clean_json_response *)

\* Mutant: the slice stops before the last "}".
clean_json_response_NoPlusOne(text) ==
    LET json_start == find(text, "{")
        json_end   == rfind(text, "}")
    IN  IF json_start # -1 /\ json_end # -1
        THEN Slice(text, json_start, json_end)
        ELSE text

clean_json_response(text) ==
    LET json_start == find(text, "{")
        json_end   == rfind(text, "}") + 1
    IN  IF json_start # -1 /\ json_end # -1
        THEN Slice(text, json_start, json_end)
        ELSE text

BraceAlphabet == {"{", "}", "a"}

CleanInit ==
    /\ model = "GenerativeModel"
    /\ uploaded_file = [present |-> FALSE, readable |-> FALSE, pages |-> << >>]
    /\ pc = "clean_call"
    /\ trace = << >>
    /\ full_text = None
    /\ analyzer_response_text = None
    /\ analyzer_json_text = None
    /\ synthesizer_response = None
    /\ final_json_text = None
    /\ final_report_markdown = None
    /\ cg_pc = "idle"
    /\ retry_count = 2
    /\ attempt = 0
    /\ full_prompt = << >>
    /\ cg_result = None
    /\ response_text \in SeqsUpTo(BraceAlphabet, MaxLen)
    /\ clean_text = None

CleanCall ==
    /\ pc = "clean_call"
    /\ clean_text' = Str(clean_json_response(response_text))
    /\ pc' = "clean_done"
    /\ UNCHANGED <<model, trace, mainVars, cgVars, response_text>>

CleanNext == CleanCall

SpecClean == CleanInit /\ [][CleanNext]_vars

----------------------------------------------------------------------------
(* Texts *)

Q == "\""

CHUNK_AGENT_PROMPT == "CHUNK_AGENT_PROMPT"

ANALYZER_AGENT_PROMPT == "ANALYZER_AGENT_PROMPT"

SYNTHESIZER_AGENT_PROMPT == "SYNTHESIZER_AGENT_PROMPT"

\* Texts response.text may hold.
JsonSummary == <<"{", Q, "executive_summary", Q, ":", Q, "s", Q, "}">>

JsonFenced == <<"~~~json">> \o JsonSummary \o <<"~~~">>

JsonMetrics == <<"{", Q, "key_metrics", Q, ":", "[", Q, "m", Q, ",", "5", "]", ",",
                 Q, "risks_and_red_flags", Q, ":", Q, "r", Q, "}">>

JsonEmptyObject == <<"{", "}">>

JsonSummaryNumber == <<"{", Q, "executive_summary", Q, ":", "5", "}">>

JsonMetricsNull == <<"{", Q, "strategic_developments", Q, ":", "null", "}">>

Responses ==
    { << >>,                    \* empty text
      <<"x">>,                  \* prose, no brace
      <<"5">>,                  \* a JSON number, no brace
      <<"{">>,                  \* opening brace only
      <<"}", "{">>,             \* last "}" before first "{"
      <<"{", "x", "}">>,        \* braces around prose
      JsonSummary, JsonFenced, JsonMetrics, JsonEmptyObject,
      JsonSummaryNumber, JsonMetricsNull }

\* Messages of the exceptions generate_content may raise.
Errors == { <<"429", "Quota", "exceeded">>, <<"503", "unavailable">> }

\* str.lower() on a lexeme.
lower(l) ==
    CASE l = "Quota" -> "quota"
      [] l = "QUOTA" -> "quota"
      [] OTHER -> l

\* "quota" in str(e).lower()
IsQuota(e) == \E i \in 1..Len(e) : lower(e[i]) = "quota"

Ev(op, arg) == [op |-> op, arg |-> arg]

----------------------------------------------------------------------------
(* call_gemini *)

\* Mutant: the loop runs range(retry_count + 1).
call_gemini_ExtraAttempt(prompt, data_to_process, rc, tr) ==
    /\ retry_count' = rc + 1
    /\ IF model = "None"
       THEN /\ cg_result' = Str(<<"Error: Google Generative AI model is not configured.">>)
            /\ cg_pc' = "returned"
            /\ trace' = tr
            /\ UNCHANGED <<full_prompt, attempt>>
       ELSE /\ full_prompt' = <<prompt, "\n\nHere is the text to process:\n\n">> \o data_to_process
            /\ IF rc + 1 > 0
               THEN /\ attempt' = 0
                    /\ cg_pc' = "loop"
                    /\ cg_result' = None
                    /\ trace' = tr
               ELSE /\ cg_pc' = "returned"
                    /\ cg_result' = None
                    /\ trace' = Append(tr, Ev("st.error",
                           <<"Failed to get a response from the API after multiple attempts.">>))
                    /\ UNCHANGED attempt

\* Entry of call_gemini up to the head of the retry loop; tr is the caller's
\* output so far.
call_gemini(prompt, data_to_process, rc, tr) ==
    /\ retry_count' = rc
    /\ IF model = "None"
       THEN /\ cg_result' = Str(<<"Error: Google Generative AI model is not configured.">>)
            /\ cg_pc' = "returned"
            /\ trace' = tr
            /\ UNCHANGED <<full_prompt, attempt>>
       ELSE /\ full_prompt' = <<prompt, "\n\nHere is the text to process:\n\n">> \o data_to_process
            /\ IF rc > 0
               THEN /\ attempt' = 0
                    /\ cg_pc' = "loop"
                    /\ cg_result' = None
                    /\ trace' = tr
               ELSE /\ cg_pc' = "returned"
                    /\ cg_result' = None
                    /\ trace' = Append(tr, Ev("st.error",
                           <<"Failed to get a response from the API after multiple attempts.">>))
                    /\ UNCHANGED attempt

\* model.generate_content(full_prompt) is invoked.
Invoke ==
    /\ cg_pc = "loop"
    /\ attempt < retry_count
    /\ trace' = Append(trace, Ev("generate_content", full_prompt))
    /\ cg_pc' = "inflight"
    /\ UNCHANGED <<model, pc, mainVars, retry_count, attempt, full_prompt, cg_result, cleanVars>>

\* The invocation returns and response.text is returned to the caller.
GenerateReturns ==
    /\ cg_pc = "inflight"
    /\ \E text \in Responses :
         /\ trace' = Append(trace, Ev("generate_content.return", text))
         /\ cg_result' = Str(text)
    /\ cg_pc' = "returned"
    /\ UNCHANGED <<model, pc, mainVars, retry_count, attempt, full_prompt, cleanVars>>

\* Mutant: a quota error is retried like any other error.
GenerateRaises_IgnoreQuota ==
    /\ cg_pc = "inflight"
    /\ \E e \in Errors :
         LET tr1 == trace \o
                    << Ev("generate_content.raise", e),
                       Ev("st.error", <<"API Error (Attempt ", ToString(attempt + 1), "/",
                                        ToString(retry_count), "): ">> \o e) >>
         IN  IF FALSE
             THEN /\ trace' = Append(tr1, Ev("st.error",
                         <<"Quota exceeded. Please check your Google AI billing.">>))
                  /\ cg_result' = None
                  /\ cg_pc' = "returned"
                  /\ UNCHANGED attempt
             ELSE IF attempt + 1 < retry_count
             THEN /\ trace' = tr1
                  /\ attempt' = attempt + 1
                  /\ cg_pc' = "loop"
                  /\ UNCHANGED cg_result
             ELSE /\ trace' = Append(tr1, Ev("st.error",
                         <<"Failed to get a response from the API after multiple attempts.">>))
                  /\ cg_result' = None
                  /\ cg_pc' = "returned"
                  /\ UNCHANGED attempt
    /\ UNCHANGED <<model, pc, mainVars, retry_count, full_prompt, cleanVars>>

\* The invocation (or reading response.text) raises.
GenerateRaises ==
    /\ cg_pc = "inflight"
    /\ \E e \in Errors :
         LET tr1 == trace \o
                    << Ev("generate_content.raise", e),
                       Ev("st.error", <<"API Error (Attempt ", ToString(attempt + 1), "/",
                                        ToString(retry_count), "): ">> \o e) >>
         IN  IF IsQuota(e)
             THEN /\ trace' = Append(tr1, Ev("st.error",
                         <<"Quota exceeded. Please check your Google AI billing.">>))
                  /\ cg_result' = None
                  /\ cg_pc' = "returned"
                  /\ UNCHANGED attempt
             ELSE IF attempt + 1 < retry_count
             THEN /\ trace' = tr1
                  /\ attempt' = attempt + 1
                  /\ cg_pc' = "loop"
                  /\ UNCHANGED cg_result
             ELSE /\ trace' = Append(tr1, Ev("st.error",
                         <<"Failed to get a response from the API after multiple attempts.">>))
                  /\ cg_result' = None
                  /\ cg_pc' = "returned"
                  /\ UNCHANGED attempt
    /\ UNCHANGED <<model, pc, mainVars, retry_count, full_prompt, cleanVars>>

(* call_gemini called on its own, with any retry count *)

CallData == { << >>, <<"t">> }

CallInit ==
    /\ model \in {"GenerativeModel", "None"}
    /\ uploaded_file = [present |-> FALSE, readable |-> FALSE, pages |-> << >>]
    /\ pc = "call"
    /\ trace = << >>
    /\ full_text = None
    /\ analyzer_response_text = None
    /\ analyzer_json_text = None
    /\ synthesizer_response = None
    /\ final_json_text = None
    /\ final_report_markdown = None
    /\ cg_pc = "idle"
    /\ retry_count = 2
    /\ attempt = 0
    /\ full_prompt = << >>
    /\ cg_result = None
    /\ response_text = << >>
    /\ clean_text = None

DirectCall ==
    /\ pc = "call"
    /\ \E rc \in 0..MaxRetryCount, data \in CallData,
          prompt \in {ANALYZER_AGENT_PROMPT, SYNTHESIZER_AGENT_PROMPT} :
         call_gemini(prompt, data, rc, trace)
    /\ pc' = "in_call"
    /\ UNCHANGED <<model, mainVars, cleanVars>>

CallNext == DirectCall \/ Invoke \/ GenerateReturns \/ GenerateRaises

SpecCall == CallInit /\ [][CallNext]_vars

----------------------------------------------------------------------------
(* json.loads on the lexemes the texts above are made of.  A parsed value is
   [t, v]: t is the Python type, v its content (the lexemes of a str, the
   decimal text of a number, the items of a list, the entries of a dict). *)

Numbers == {"5"}

NullV == [t |-> "null", v |-> << >>]

StrV(s) == [t |-> "str", v |-> s]

Fail == [ok |-> FALSE, val |-> NullV, next |-> 0]

Ok(val, next) == [ok |-> TRUE, val |-> val, next |-> next]

\* The lexeme at position i, "" past the end.
At(s, i) == IF i \in 1..Len(s) THEN s[i] ELSE ""

ParseString(s, i) ==
    IF \E j \in (i+1)..Len(s) : s[j] = Q
    THEN LET j == CHOOSE j \in (i+1)..Len(s) :
                      s[j] = Q /\ \A k \in (i+1)..(j-1) : s[k] # Q
         IN  Ok(StrV(SubSeq(s, i + 1, j - 1)), j + 1)
    ELSE Fail

\* dict[key] = val: a repeated key keeps its place and takes the later value.
Put(entries, key, val) ==
    IF \E i \in 1..Len(entries) : entries[i].k = key
    THEN [i \in 1..Len(entries) |->
             IF entries[i].k = key THEN [k |-> key, v |-> val] ELSE entries[i]]
    ELSE Append(entries, [k |-> key, v |-> val])

RECURSIVE ParseValue(_, _), ParseElems(_, _, _), ParseMembers(_, _, _)

ParseValue(s, i) ==
    LET c == At(s, i)
    IN  CASE c = Q -> ParseString(s, i)
          [] c \in Numbers -> Ok([t |-> "num", v |-> <<c>>], i + 1)
          [] c = "null" -> Ok(NullV, i + 1)
          [] c = "[" -> IF At(s, i + 1) = "]"
                        THEN Ok([t |-> "list", v |-> << >>], i + 2)
                        ELSE ParseElems(s, i + 1, << >>)
          [] c = "{" -> IF At(s, i + 1) = "}"
                        THEN Ok([t |-> "dict", v |-> << >>], i + 2)
                        ELSE ParseMembers(s, i + 1, << >>)
          [] OTHER -> Fail

ParseElems(s, i, acc) ==
    LET r == ParseValue(s, i)
    IN  IF ~r.ok THEN Fail
        ELSE CASE At(s, r.next) = "," -> ParseElems(s, r.next + 1, Append(acc, r.val))
               [] At(s, r.next) = "]" -> Ok([t |-> "list", v |-> Append(acc, r.val)], r.next + 1)
               [] OTHER -> Fail

ParseMembers(s, i, acc) ==
    IF At(s, i) # Q THEN Fail
    ELSE LET key == ParseString(s, i)
         IN  IF ~key.ok \/ At(s, key.next) # ":" THEN Fail
             ELSE LET r == ParseValue(s, key.next + 1)
                  IN  IF ~r.ok THEN Fail
                      ELSE CASE At(s, r.next) = "," ->
                                    ParseMembers(s, r.next + 1, Put(acc, key.val.v, r.val))
                             [] At(s, r.next) = "}" ->
                                    Ok([t |-> "dict", v |-> Put(acc, key.val.v, r.val)], r.next + 1)
                             [] OTHER -> Fail

\* json.loads(text): ok is FALSE where it raises json.JSONDecodeError.
json_loads(text) ==
    LET r == ParseValue(text, 1)
    IN  IF r.ok /\ r.next = Len(text) + 1
        THEN [ok |-> TRUE, val |-> r.val]
        ELSE [ok |-> FALSE, val |-> NullV]

\* sep.join(lines) for a list of str.
RECURSIVE join(_, _)
join(sep, lines) ==
    IF Len(lines) = 0 THEN << >>
    ELSE IF Len(lines) = 1 THEN lines[1]
    ELSE lines[1] \o sep \o join(sep, Tail(lines))

RECURSIVE repr(_)
repr(x) ==
    CASE x.t = "str"  -> <<"'">> \o x.v \o <<"'">>
      [] x.t = "num"  -> x.v
      [] x.t = "null" -> <<"None">>
      [] x.t = "list" -> <<"[">> \o join(<<", ">>, [i \in 1..Len(x.v) |-> repr(x.v[i])]) \o <<"]">>
      [] x.t = "dict" -> <<"{">> \o join(<<", ">>, [i \in 1..Len(x.v) |->
                               repr(StrV(x.v[i].k)) \o <<": ">> \o repr(x.v[i].v)]) \o <<"}">>

\* str(x), as an f-string formats x.
str(x) == IF x.t = "str" THEN x.v ELSE repr(x)

\* Whether "for item in x" is defined.
Iterable(x) == x.t \in {"list", "str", "dict"}

\* The items "for item in x" visits.
iter(x) ==
    CASE x.t = "list" -> x.v
      [] x.t = "str"  -> [i \in 1..Len(x.v) |-> StrV(<<x.v[i]>>)]
      [] x.t = "dict" -> [i \in 1..Len(x.v) |-> StrV(x.v[i].k)]

\* key in data, for a data that supports "in".
contains(data, key) ==
    CASE data.t = "dict" -> \E i \in 1..Len(data.v) : data.v[i].k = <<key>>
      [] data.t = "list" -> \E i \in 1..Len(data.v) :
                                data.v[i].t = "str" /\ data.v[i].v = <<key>>
      [] data.t = "str"  -> \E i \in 1..Len(data.v) : data.v[i] = key

\* data[key] of a dict that has the key.
get(data, key) == data.v[CHOOSE i \in 1..Len(data.v) : data.v[i].k = <<key>>].v

----------------------------------------------------------------------------
(* build_report_from_json *)

ListKeys == {"key_metrics", "strategic_developments", "risks_and_red_flags"}

ReportKeys == {"executive_summary"} \cup ListKeys

Raised == [raised |-> TRUE, text |-> << >>, ui |-> << >>]

Returned(text, ui) == [raised |-> FALSE, text |-> text, ui |-> ui]

\* The lines one list section appends to report_markdown.
ListSection(data, key, title) ==
    IF contains(data, key)
    THEN <<StrV(<<title>>)>>
         \o [i \in 1..Len(iter(get(data, key))) |->
                StrV(<<"*">> \o str(iter(get(data, key))[i]) \o <<"*">>)]
         \o <<StrV(<<"\n">>)>>
    ELSE << >>

\* Mutant: a parse failure returns the empty string.
build_report_from_json_DropRaw(report_json_text) ==
    LET parsed == json_loads(report_json_text)
        data   == parsed.val
    IN  IF ~parsed.ok
        THEN Returned(<< >>,
                      <<Ev("st.error", <<"Error: Unable to parse final report JSON.">>)>>)
        ELSE IF data.t \notin {"dict", "list", "str"}
        THEN Raised      \* TypeError: argument of type ... is not iterable
        ELSE IF data.t # "dict"
        THEN IF \E key \in ReportKeys : contains(data, key)
             THEN Raised \* TypeError on data[key], AttributeError on data.get
             ELSE Returned(join(<<"\n">>, << >>), << >>)
        ELSE IF \E key \in ListKeys : contains(data, key) /\ ~Iterable(get(data, key))
        THEN Raised      \* TypeError: ... object is not iterable
        ELSE LET report_markdown ==
                     (IF contains(data, "executive_summary")
                      THEN <<StrV(<<"### Executive Summary">>),
                             get(data, "executive_summary"),
                             StrV(<<"\n">>)>>
                      ELSE << >>)
                     \o ListSection(data, "key_metrics", "**Key Metrics & Guidance**")
                     \o ListSection(data, "strategic_developments", "**Strategic Developments**")
                     \o ListSection(data, "risks_and_red_flags", "**Risks & Red Flags**")
             IN  IF \E i \in 1..Len(report_markdown) : report_markdown[i].t # "str"
                 THEN Raised  \* TypeError: sequence item: expected str instance
                 ELSE Returned(join(<<"\n">>, [i \in 1..Len(report_markdown) |->
                                                  report_markdown[i].v]), << >>)

\* raised is TRUE where the function ends with an uncaught exception; ui is
\* what it writes to the page.
build_report_from_json(report_json_text) ==
    LET parsed == json_loads(report_json_text)
        data   == parsed.val
    IN  IF ~parsed.ok
        THEN Returned(report_json_text,
                      <<Ev("st.error", <<"Error: Unable to parse final report JSON.">>)>>)
        ELSE IF data.t \notin {"dict", "list", "str"}
        THEN Raised      \* TypeError: argument of type ... is not iterable
        ELSE IF data.t # "dict"
        THEN IF \E key \in ReportKeys : contains(data, key)
             THEN Raised \* TypeError on data[key], AttributeError on data.get
             ELSE Returned(join(<<"\n">>, << >>), << >>)
        ELSE IF \E key \in ListKeys : contains(data, key) /\ ~Iterable(get(data, key))
        THEN Raised      \* TypeError: ... object is not iterable
        ELSE LET report_markdown ==
                     (IF contains(data, "executive_summary")
                      THEN <<StrV(<<"### Executive Summary">>),
                             get(data, "executive_summary"),
                             StrV(<<"\n">>)>>
                      ELSE << >>)
                     \o ListSection(data, "key_metrics", "**Key Metrics & Guidance**")
                     \o ListSection(data, "strategic_developments", "**Strategic Developments**")
                     \o ListSection(data, "risks_and_red_flags", "**Risks & Red Flags**")
             IN  IF \E i \in 1..Len(report_markdown) : report_markdown[i].t # "str"
                 THEN Raised  \* TypeError: sequence item: expected str instance
                 ELSE Returned(join(<<"\n">>, [i \in 1..Len(report_markdown) |->
                                                  report_markdown[i].v]), << >>)

----------------------------------------------------------------------------
(* main: one run of the script, started by the "Generate Summary" button *)

NoFile == [present |-> FALSE, readable |-> FALSE, pages |-> << >>]

\* Uploaded PDFs: one pdfplumber cannot read, one with a page without text,
\* one without pages.
PdfFiles ==
    { [present |-> TRUE, readable |-> FALSE, pages |-> << >>],
      [present |-> TRUE, readable |-> TRUE,  pages |-> << <<"p1">>, << >>, <<"p2">> >>],
      [present |-> TRUE, readable |-> TRUE,  pages |-> << >>] }

\* " ".join(page.extract_text() for page in pdf.pages if page.extract_text())
extract_full_text(pages) ==
    LET IsText(page_text) == page_text # << >>
    IN  join(<<" ">>, SelectSeq(pages, IsText))

Init ==
    /\ model \in {"GenerativeModel", "None"}
    /\ uploaded_file \in PdfFiles \cup {NoFile}
    /\ pc = "start"
    /\ trace = IF model = "None"
               THEN <<Ev("st.error", <<"Error configuring Google Generative AI: ", "KeyError">>)>>
               ELSE << >>
    /\ full_text = None
    /\ analyzer_response_text = None
    /\ analyzer_json_text = None
    /\ synthesizer_response = None
    /\ final_json_text = None
    /\ final_report_markdown = None
    /\ cg_pc = "idle"
    /\ retry_count = 2
    /\ attempt = 0
    /\ full_prompt = << >>
    /\ cg_result = None
    /\ response_text = << >>
    /\ clean_text = None

\* The button is clicked; the run stops at once when model is None.
ClickGenerate ==
    /\ pc = "start"
    /\ uploaded_file.present
    /\ IF model = "None"
       THEN /\ trace' = Append(trace, Ev("st.error",
                   <<"Model not configured. Check API key in Streamlit Secrets.">>))
            /\ pc' = "stopped"
       ELSE /\ pc' = "read_pdf"
            /\ UNCHANGED trace
    /\ UNCHANGED <<model, mainVars, cgVars, cleanVars>>

\* Step 1 reads the PDF; Step 2 opens with the analyzer's call_gemini.
ReadPdf ==
    /\ pc = "read_pdf"
    /\ IF ~uploaded_file.readable
       THEN /\ trace' = Append(trace, Ev("st.error", <<"Error reading PDF: ", "PDFSyntaxError">>))
            /\ pc' = "stopped"
            /\ UNCHANGED <<full_text, analyzer_json_text, cgVars>>
       ELSE /\ full_text' = Str(extract_full_text(uploaded_file.pages))
            /\ analyzer_json_text' = None
            /\ call_gemini(ANALYZER_AGENT_PROMPT, extract_full_text(uploaded_file.pages), 2,
                           trace \o << Ev("pdfplumber.open", extract_full_text(uploaded_file.pages)),
                                       Ev("st.info", <<"PDF Read Successfully.">>),
                                       Ev("st.subheader", <<"Step 1: Analyzing Full Transcript">>) >>)
            /\ pc' = "analyzer"
    /\ UNCHANGED <<model, uploaded_file, analyzer_response_text, synthesizer_response,
                   final_json_text, final_report_markdown, cleanVars>>

\* Mutant: the run goes on after a failed analyzer call (no st.stop()).
AnalyzerReturn_NoStop ==
    /\ pc = "analyzer"
    /\ cg_pc = "returned"
    /\ analyzer_response_text' = cg_result
    /\ IF ~Truthy(cg_result)
       THEN /\ trace' = Append(trace, Ev("st.error", <<"Analyzer Agent failed.">>))
            /\ pc' = "build"
            /\ cg_pc' = "idle"
            /\ UNCHANGED <<analyzer_json_text, final_json_text, retry_count, attempt,
                           full_prompt, cg_result>>
       ELSE LET json_text == clean_json_response(cg_result.text)
                tr == trace \o << Ev("st.json", json_text),
                                  Ev("st.subheader", <<"Step 2: Synthesizing Final JSON">>) >>
            IN  /\ analyzer_json_text' = Str(json_text)
                /\ final_json_text' = None
                /\ IF json_text # << >>
                   THEN /\ call_gemini(SYNTHESIZER_AGENT_PROMPT, json_text, 2, tr)
                        /\ pc' = "synthesizer"
                   ELSE /\ trace' = tr
                        /\ pc' = "build"
                        /\ cg_pc' = "idle"
                        /\ UNCHANGED <<retry_count, attempt, full_prompt, cg_result>>
    /\ UNCHANGED <<model, uploaded_file, full_text, synthesizer_response,
                   final_report_markdown, cleanVars>>

\* Mutant: the synthesizer is given the raw analyzer response.
AnalyzerReturn_Raw ==
    /\ pc = "analyzer"
    /\ cg_pc = "returned"
    /\ analyzer_response_text' = cg_result
    /\ IF ~Truthy(cg_result)
       THEN /\ trace' = Append(trace, Ev("st.error", <<"Analyzer Agent failed.">>))
            /\ pc' = "stopped"
            /\ cg_pc' = "idle"
            /\ UNCHANGED <<analyzer_json_text, final_json_text, retry_count, attempt,
                           full_prompt, cg_result>>
       ELSE LET json_text == clean_json_response(cg_result.text)
                tr == trace \o << Ev("st.json", json_text),
                                  Ev("st.subheader", <<"Step 2: Synthesizing Final JSON">>) >>
            IN  /\ analyzer_json_text' = Str(json_text)
                /\ final_json_text' = None
                /\ IF json_text # << >>
                   THEN /\ call_gemini(SYNTHESIZER_AGENT_PROMPT, cg_result.text, 2, tr)
                        /\ pc' = "synthesizer"
                   ELSE /\ trace' = tr
                        /\ pc' = "build"
                        /\ cg_pc' = "idle"
                        /\ UNCHANGED <<retry_count, attempt, full_prompt, cg_result>>
    /\ UNCHANGED <<model, uploaded_file, full_text, synthesizer_response,
                   final_report_markdown, cleanVars>>

\* Mutant: the synthesizer is called even when the cleaned analyzer text is empty.
AnalyzerReturn_NoGuard ==
    /\ pc = "analyzer"
    /\ cg_pc = "returned"
    /\ analyzer_response_text' = cg_result
    /\ IF ~Truthy(cg_result)
       THEN /\ trace' = Append(trace, Ev("st.error", <<"Analyzer Agent failed.">>))
            /\ pc' = "stopped"
            /\ cg_pc' = "idle"
            /\ UNCHANGED <<analyzer_json_text, final_json_text, retry_count, attempt,
                           full_prompt, cg_result>>
       ELSE LET json_text == clean_json_response(cg_result.text)
                tr == trace \o << Ev("st.json", json_text),
                                  Ev("st.subheader", <<"Step 2: Synthesizing Final JSON">>) >>
            IN  /\ analyzer_json_text' = Str(json_text)
                /\ final_json_text' = None
                /\ IF TRUE
                   THEN /\ call_gemini(SYNTHESIZER_AGENT_PROMPT, json_text, 2, tr)
                        /\ pc' = "synthesizer"
                   ELSE /\ trace' = tr
                        /\ pc' = "build"
                        /\ cg_pc' = "idle"
                        /\ UNCHANGED <<retry_count, attempt, full_prompt, cg_result>>
    /\ UNCHANGED <<model, uploaded_file, full_text, synthesizer_response,
                   final_report_markdown, cleanVars>>

\* The analyzer's call_gemini has returned; Step 3 opens with the
\* synthesizer's call_gemini when the cleaned analyzer text is not empty.
AnalyzerReturn ==
    /\ pc = "analyzer"
    /\ cg_pc = "returned"
    /\ analyzer_response_text' = cg_result
    /\ IF ~Truthy(cg_result)
       THEN /\ trace' = Append(trace, Ev("st.error", <<"Analyzer Agent failed.">>))
            /\ pc' = "stopped"
            /\ cg_pc' = "idle"
            /\ UNCHANGED <<analyzer_json_text, final_json_text, retry_count, attempt,
                           full_prompt, cg_result>>
       ELSE LET json_text == clean_json_response(cg_result.text)
                tr == trace \o << Ev("st.json", json_text),
                                  Ev("st.subheader", <<"Step 2: Synthesizing Final JSON">>) >>
            IN  /\ analyzer_json_text' = Str(json_text)
                /\ final_json_text' = None
                /\ IF json_text # << >>
                   THEN /\ call_gemini(SYNTHESIZER_AGENT_PROMPT, json_text, 2, tr)
                        /\ pc' = "synthesizer"
                   ELSE /\ trace' = tr
                        /\ pc' = "build"
                        /\ cg_pc' = "idle"
                        /\ UNCHANGED <<retry_count, attempt, full_prompt, cg_result>>
    /\ UNCHANGED <<model, uploaded_file, full_text, synthesizer_response,
                   final_report_markdown, cleanVars>>

\* The synthesizer's call_gemini has returned.
SynthesizerReturn ==
    /\ pc = "synthesizer"
    /\ cg_pc = "returned"
    /\ synthesizer_response' = cg_result
    /\ cg_pc' = "idle"
    /\ IF ~Truthy(cg_result)
       THEN /\ trace' = Append(trace, Ev("st.error", <<"Synthesizer Agent failed.">>))
            /\ pc' = "stopped"
            /\ UNCHANGED final_json_text
       ELSE /\ final_json_text' = Str(clean_json_response(cg_result.text))
            /\ trace' = Append(trace, Ev("st.json", clean_json_response(cg_result.text)))
            /\ pc' = "build"
    /\ UNCHANGED <<model, uploaded_file, full_text, analyzer_response_text, analyzer_json_text,
                   final_report_markdown, retry_count, attempt, full_prompt, cg_result, cleanVars>>

\* Step 4: build the report when the cleaned synthesizer text is not empty.
BuildReport ==
    /\ pc = "build"
    /\ LET tr == Append(trace, Ev("st.subheader", <<"Step 3: Building Final Report">>))
           r  == build_report_from_json(final_json_text.text)
       IN  IF ~Truthy(final_json_text)
           THEN /\ final_report_markdown' = None
                /\ trace' = tr
                /\ pc' = "display"
           ELSE IF r.raised
           THEN /\ final_report_markdown' = None
                /\ trace' = Append(tr \o r.ui, Ev("exception", <<"build_report_from_json">>))
                /\ pc' = "crashed"
           ELSE /\ final_report_markdown' = Str(r.text)
                /\ trace' = Append(tr \o r.ui, Ev("st.text", r.text))
                /\ pc' = "display"
    /\ UNCHANGED <<model, uploaded_file, full_text, analyzer_response_text, analyzer_json_text,
                   synthesizer_response, final_json_text, cgVars, cleanVars>>

\* Step 5: display the final product.
Display ==
    /\ pc = "display"
    /\ IF Truthy(final_report_markdown)
       THEN trace' = trace \o << Ev("st.subheader", <<"Your Executive Summary">>),
                                 Ev("st.markdown", final_report_markdown.text),
                                 Ev("st.balloons", << >>) >>
       ELSE trace' = Append(trace, Ev("st.error", <<"Could not generate the final report.">>))
    /\ pc' = "done"
    /\ UNCHANGED <<model, mainVars, cgVars, cleanVars>>

Next ==
    \/ ClickGenerate
    \/ ReadPdf
    \/ Invoke
    \/ GenerateReturns
    \/ GenerateRaises
    \/ AnalyzerReturn
    \/ SynthesizerReturn
    \/ BuildReport
    \/ Display

Spec == Init /\ [][Next]_vars

----------------------------------------------------------------------------
(* Properties of clean_json_response (specification SpecClean) *)

HasOpen(s) == \E i \in 1..Len(s) : s[i] = "{"

HasClose(s) == \E i \in 1..Len(s) : s[i] = "}"

\* 1-based position of the first "{" of s (s contains one).
FirstOpen(s) == CHOOSE i \in 1..Len(s) : s[i] = "{" /\ \A j \in 1..(i-1) : s[j] # "{"

\* 1-based position of the last "}" of s (s contains one).
LastClose(s) == CHOOSE i \in 1..Len(s) : s[i] = "}" /\ \A j \in (i+1)..Len(s) : s[j] # "}"

\* out is the part of s that starts at position i and ends at position j, both included.
IsPart(out, s, i, j) ==
    /\ i <= j
    /\ Len(out) = j - i + 1
    /\ \A k \in 1..Len(out) : out[k] = s[i + k - 1]

\* C1 as stated: for every input that contains both a "{" and a "}", the
\* result is exactly the part from the first "{" to the last "}", braces included.
C1_Original ==
    (pc = "clean_done" /\ HasOpen(response_text) /\ HasClose(response_text))
        => IsPart(clean_text.text, response_text,
                  FirstOpen(response_text), LastClose(response_text))

\* C1 amended: when the first "{" comes before the last "}", the result is
\* exactly the part from the first "{" to the last "}", braces included; when
\* the last "}" comes before the first "{", the result is the empty string.
C1_Amended ==
    (pc = "clean_done" /\ HasOpen(response_text) /\ HasClose(response_text))
        => IF FirstOpen(response_text) < LastClose(response_text)
           THEN IsPart(clean_text.text, response_text,
                       FirstOpen(response_text), LastClose(response_text))
           ELSE clean_text.text = << >>

\* C1 witness: a cleaned input with text before the first "{" and after the last "}".
C1_Witness ==
    /\ pc = "clean_done"
    /\ HasOpen(response_text) /\ HasClose(response_text)
    /\ 1 < FirstOpen(response_text)
    /\ FirstOpen(response_text) < LastClose(response_text)
    /\ LastClose(response_text) < Len(response_text)
    /\ Len(clean_text.text) = Len(response_text) - 2

\* C2 as stated: for every input in which a "{" or a "}" is missing, the
\* result is the input unchanged.
C2_Claim ==
    (pc = "clean_done" /\ (~HasOpen(response_text) \/ ~HasClose(response_text)))
        => clean_text.text = response_text

----------------------------------------------------------------------------
(* Properties of call_gemini called on its own (specification SpecCall) *)

\* The positions of the trace at which model.generate_content is invoked.
Invocations(tr) == {i \in 1..Len(tr) : tr[i].op = "generate_content"}

\* The positions of the trace at which an invocation ends.
Completions(tr) == {i \in 1..Len(tr) :
                       tr[i].op \in {"generate_content.return", "generate_content.raise"}}

QuotaFailures(tr) == {i \in 1..Len(tr) :
                         tr[i].op = "generate_content.raise" /\ IsQuota(tr[i].arg)}

\* C3: one call_gemini with retry count N invokes generate_content at most N
\* times, and once an attempt fails with a quota error no further attempt is
\* made and the call returns None.
C3_RetryBound ==
    pc = "in_call" =>
        /\ Cardinality(Invocations(trace)) <= retry_count
        /\ \A i \in QuotaFailures(trace) :
              /\ \A j \in Invocations(trace) : j < i
              /\ cg_pc = "returned"
              /\ cg_result.isNone

\* C3 witness: with N = 3, the second attempt fails on quota and the call is
\* over after two invocations.
C3_Witness ==
    /\ pc = "in_call"
    /\ retry_count = 3
    /\ Cardinality(Invocations(trace)) = 2
    /\ QuotaFailures(trace) # {}
    /\ cg_pc = "returned"

\* C8 as stated: whenever an attempt fails and another attempt follows, a
\* sleep happens between the failed attempt and the next one.
C8_Claim ==
    \A i \in Invocations(trace) : \A j \in Invocations(trace) :
        (i < j /\ \E k \in (i+1)..(j-1) : trace[k].op = "generate_content.raise")
            => \E k \in (i+1)..(j-1) : trace[k].op = "time.sleep"

----------------------------------------------------------------------------
(* Properties of a run (specification Spec) *)

SummaryShown(tr) ==
    \E i \in 1..Len(tr) : tr[i] = Ev("st.subheader", <<"Your Executive Summary">>)

LastIsError(tr) == Len(tr) > 0 /\ tr[Len(tr)].op = "st.error"

\* The run is past the point where the failure happened.
FailedModel == model = "None" /\ pc # "start"

FailedPdf == model # "None" /\ ~uploaded_file.readable /\ pc \notin {"start", "read_pdf"}

FailedAnalyzer ==
    /\ model # "None" /\ uploaded_file.readable
    /\ pc \notin {"start", "read_pdf", "analyzer"}
    /\ ~Truthy(analyzer_response_text)

FailedSynthesizer ==
    /\ Truthy(analyzer_json_text)
    /\ pc \notin {"start", "read_pdf", "analyzer", "synthesizer"}
    /\ ~Truthy(synthesizer_response)

Failed == FailedModel \/ FailedPdf \/ FailedAnalyzer \/ FailedSynthesizer

\* C4: a failure of the run (model not configured, PDF extraction raising,
\* analyzer or synthesizer call without result) is reported with an error
\* message and halts the run: from then on no remote call is made and no
\* final summary is displayed.
C4_FailureHalts ==
    /\ [](Failed => (pc = "stopped" /\ LastIsError(trace) /\ ~SummaryShown(trace)))
    /\ [][Failed => (Invocations(trace') = Invocations(trace) /\ ~SummaryShown(trace'))]_vars

\* C4 witness: the synthesizer call gave no result after the analyzer succeeded.
C4_Witness ==
    /\ FailedSynthesizer
    /\ pc = "stopped"
    /\ trace[Len(trace)] = Ev("st.error", <<"Synthesizer Agent failed.">>)

\* The part of the trace that Step 4 and Step 5 wrote.
SinceBuild(tr) ==
    LET start == CHOOSE i \in 1..Len(tr) :
                     tr[i] = Ev("st.subheader", <<"Step 3: Building Final Report">>)
    IN  SubSeq(tr, start + 1, Len(tr))

ErrorsIn(tr) == SelectSeq(tr, LAMBDA ev : ev.op = "st.error")

\* The text handed to build_report_from_json does not parse as JSON.
Unparsable == Truthy(final_json_text) /\ ~json_loads(final_json_text.text).ok

RawPassedOn ==
    /\ final_report_markdown = Str(final_json_text.text)
    /\ pc = "done" =>
          /\ SummaryShown(trace)
          /\ \E i \in 1..Len(trace) : trace[i] = Ev("st.markdown", final_json_text.text)

\* C5 as stated: when the text does not parse as JSON, no error is reported,
\* the raw text is returned unchanged and is displayed as the final report.
C5_Original ==
    (pc \in {"display", "done"} /\ Unparsable)
        => (ErrorsIn(SinceBuild(trace)) = << >> /\ RawPassedOn)

\* C5 amended: when the text does not parse as JSON, the error "Error: Unable
\* to parse final report JSON." is reported (and no other), the raw text is
\* returned unchanged and is displayed as the final report.
C5_Amended ==
    (pc \in {"display", "done"} /\ Unparsable)
        => /\ ErrorsIn(SinceBuild(trace))
                = <<Ev("st.error", <<"Error: Unable to parse final report JSON.">>)>>
           /\ RawPassedOn

\* C5 witness: a run that displayed an unparsable synthesizer text.
C5_Witness ==
    /\ pc = "done"
    /\ Unparsable
    /\ final_json_text.text = <<"{", "x", "}">>
    /\ trace[Len(trace) - 1] = Ev("st.markdown", <<"{", "x", "}">>)

\* Invocations are sequential: between two of them the earlier one has ended.
Sequential(tr) ==
    /\ \A i \in Invocations(tr) : \A j \in Invocations(tr) :
          i < j => \E k \in Completions(tr) : i < k /\ k < j
    /\ \A i \in Completions(tr) : \A j \in Completions(tr) :
          i < j => \E k \in Invocations(tr) : i < k /\ k < j
    /\ \A k \in Completions(tr) : \E i \in Invocations(tr) : i < k

\* C6 as stated: a run invokes generate_content at most three times in all,
\* one invocation after the other.
C6_Original == Cardinality(Invocations(trace)) <= 3 /\ Sequential(trace)

\* C6 amended: a run invokes generate_content at most four times in all (two
\* stages of at most two attempts each), one invocation after the other.
C6_Amended == Cardinality(Invocations(trace)) <= 4 /\ Sequential(trace)

\* C6 witness: both stages used both attempts.
C6_Witness == Cardinality(Invocations(trace)) = 4 /\ pc = "stopped"

\* The data part of a full prompt.
DataOf(fp) == SubSeq(fp, 3, Len(fp))

Returns(tr) == {i \in 1..Len(tr) : tr[i].op = "generate_content.return"}

\* C7: the PDF is read before the analyzer call; the analyzer call gets the
\* extracted text under the analyzer prompt; the synthesizer call is made only
\* after the analyzer returned a non-empty text, and gets that text after
\* clean_json_response under the synthesizer prompt.
C7_StageOrder ==
    \A i \in Invocations(trace) :
        LET fp     == trace[i].arg
            before == {k \in Returns(trace) : k < i}
        IN  /\ \E k \in 1..(i-1) : trace[k].op = "pdfplumber.open"
            /\ IF before = {}
               THEN /\ fp[1] = ANALYZER_AGENT_PROMPT
                    /\ \E k \in 1..(i-1) : trace[k] = Ev("pdfplumber.open", DataOf(fp))
               ELSE /\ fp[1] = SYNTHESIZER_AGENT_PROMPT
                    /\ Cardinality(before) = 1
                    /\ \A k \in before :
                          /\ trace[k].arg # << >>
                          /\ \E a \in Invocations(trace) :
                                a < k /\ trace[a].arg[1] = ANALYZER_AGENT_PROMPT
                          /\ DataOf(fp) = clean_json_response(trace[k].arg)

\* C7 witness: the synthesizer is invoked with the analyzer's fenced answer
\* stripped of its fence.
C7_Witness ==
    \E i \in Invocations(trace) :
        /\ trace[i].arg[1] = SYNTHESIZER_AGENT_PROMPT
        /\ DataOf(trace[i].arg) = JsonSummary
        /\ analyzer_response_text = Str(JsonFenced)

\* Both calls returned a non-empty text whose cleaned form is non-empty.
BothStagesGave ==
    /\ Truthy(analyzer_response_text)
    /\ clean_json_response(analyzer_response_text.text) # << >>
    /\ Truthy(synthesizer_response)
    /\ clean_json_response(synthesizer_response.text) # << >>

\* C9: the final summary is displayed only if the analyzer call and then the
\* synthesizer call each returned a non-empty text whose cleaned form is
\* non-empty; every other run that reaches the last step ends with the
\* message "Could not generate the final report." and no summary.
C9_SummaryOnlyIf ==
    /\ SummaryShown(trace) => BothStagesGave
    /\ (pc = "done" /\ ~BothStagesGave) =>
          /\ trace[Len(trace)] = Ev("st.error", <<"Could not generate the final report.">>)
          /\ ~SummaryShown(trace)

\* C9 witness: a run that displayed the summary built from the synthesizer's JSON.
C9_Witness ==
    /\ pc = "done"
    /\ SummaryShown(trace)
    /\ trace[Len(trace)].op = "st.balloons"
    /\ final_json_text = Str(JsonMetrics)

\* C10 as stated: build_report_from_json never raises; for every non-empty
\* text a run hands to it, it returns a string.
C10_Claim ==
    /\ pc # "crashed"
    /\ (pc = "build" /\ Truthy(final_json_text))
          => ~build_report_from_json(final_json_text.text).raised

====
